---- MODULE Spec2Model ----
(***************************************************************************)
(* The Descriptor codec of psd_tools2.decoder.descriptor.                  *)
(*                                                                         *)
(* A byte is a number 0..255 and a byte string a sequence of bytes.  A     *)
(* file object fp is a byte string s with a cursor pos (the number of      *)
(* bytes already consumed).  Every read operator takes (s, pos) and gives  *)
(* a record [ok, val, pos, err]: the value and the cursor after it, or the *)
(* kind of the exception that ended the read.  Every write operator gives  *)
(* [out, written, err]: the bytes appended to fp, the count it returns and  *)
(* the kind of the exception it raised, if any.                            *)
(*                                                                         *)
(* An element is a record whose field cls names its Python class.  A Key   *)
(* is [kind |-> "id", value |-> code] for a DescriptorClassID member and   *)
(* [kind |-> "bytes", value |-> b] for a bytes object.                     *)
(***************************************************************************)
EXTENDS Integers, Sequences, FiniteSets, TLC

\* What a variable holds before anything is stored in it.
NoValue == [cls |-> "NoValue"]

\* The value None.
None == [cls |-> "None"]

VARIABLES
    TYPES,      \* descriptor.TYPES: 4-byte tag -> registered class
    ostype,     \* class -> the tag register() stored on it (cls.ostype)
    pc,         \* position of the driver: which call has been made
    elem,       \* the element built in memory that is being encoded
    file,       \* the document a stream was taken from, and whether whole
    stream,     \* the byte stream handed to read
    res,        \* what read gave: [ok, val, pos, err]
    out,        \* what write gave: [out, written]
    got,        \* what d[k] gave: [ok, val, err], and the key asked for
    fp,         \* per thread: the stream of a concurrent decode
    cur,        \* per thread: the cursor of that stream
    stack,      \* per thread: the frames of the reads in progress
    done        \* per thread: the finished result of the decode

vars == <<TYPES, ostype, pc, elem, file, stream, res, out, got, fp, cur, stack, done>>

----------------------------------------------------------------------------
(* Constants of psd_tools2.constants, which the decoder imports.           *)

\* OSType: the enumeration of the 4-byte type tags.
OSType ==
    [DESCRIPTOR |-> <<79, 98, 106, 99>>,            \* 'Objc'
     LIST |-> <<86, 108, 76, 115>>,                 \* 'VlLs'
     PROPERTY |-> <<112, 114, 111, 112>>,           \* 'prop'
     UNIT_FLOAT |-> <<85, 110, 116, 70>>,           \* 'UntF'
     UNIT_FLOATS |-> <<85, 110, 70, 108>>,          \* 'UnFl'
     DOUBLE |-> <<100, 111, 117, 98>>,              \* 'doub'
     STRING |-> <<84, 69, 88, 84>>,                 \* 'TEXT'
     ENUMERATED_REFERENCE |-> <<69, 110, 109, 114>>,\* 'Enmr'
     OFFSET |-> <<114, 101, 108, 101>>,             \* 'rele'
     BOOLEAN |-> <<98, 111, 111, 108>>,             \* 'bool'
     LARGE_INTEGER |-> <<99, 111, 109, 112>>,       \* 'comp'
     INTEGER |-> <<108, 111, 110, 103>>,            \* 'long'
     ENUMERATED |-> <<101, 110, 117, 109>>,         \* 'enum'
     RAW_DATA |-> <<116, 100, 116, 97>>,            \* 'tdta'
     CLASS1 |-> <<116, 121, 112, 101>>,             \* 'type'
     CLASS2 |-> <<71, 108, 98, 67>>,                \* 'GlbC'
     CLASS3 |-> <<67, 108, 115, 115>>,              \* 'Clss'
     REFERENCE |-> <<111, 98, 106, 32>>,            \* 'obj '
     ALIAS |-> <<97, 108, 105, 115>>,               \* 'alis'
     GLOBAL_OBJECT |-> <<71, 108, 98, 79>>,         \* 'GlbO'
     OBJECT_ARRAY |-> <<79, 98, 65, 114>>,          \* 'ObAr'
     PATH |-> <<80, 116, 104, 32>>,                 \* 'Pth '
     IDENTIFIER |-> <<73, 100, 110, 116>>,          \* 'Idnt'
     INDEX |-> <<105, 110, 100, 120>>,              \* 'indx'
     NAME |-> <<110, 97, 109, 101>>]                \* 'name'

\* The values OSType(b) accepts; any other b raises ValueError.
OSTypeValues == {OSType[m] : m \in DOMAIN OSType}

\* DescriptorClassID: the enumeration of the well-known 4-byte identifiers.
DescriptorClassID ==
    [NULL |-> <<110, 117, 108, 108>>,               \* 'null'
     LAYER |-> <<76, 121, 114, 32>>]                \* 'Lyr '

\* The values DescriptorClassID(b) accepts; any other b raises ValueError.
DescriptorClassIDValues == {DescriptorClassID[m] : m \in DOMAIN DescriptorClassID}

\* UnitFloatType: the unit codes UnitFloat and UnitFloats accept.
UnitFloatType ==
    [NONE |-> <<35, 78, 110, 101>>,                 \* '#Nne'
     PIXELS |-> <<35, 80, 120, 108>>]               \* '#Pxl'

UnitFloatTypeValues == {UnitFloatType[m] : m \in DOMAIN UnitFloatType}

\* A member of DescriptorClassID, and a bytes object, as Keys.
IdKey(code) == [kind |-> "id", value |-> code]
BytesKey(b) == [kind |-> "bytes", value |-> b]

----------------------------------------------------------------------------
(* Results.                                                                *)

Ok(v, p) == [ok |-> TRUE, val |-> v, pos |-> p, err |-> "none"]

Raise(kind, p) == [ok |-> FALSE, val |-> NoValue, pos |-> p, err |-> kind]

Wr(b, n) == [out |-> b, written |-> n, err |-> "none"]

WrRaise(kind) == [out |-> <<>>, written |-> 0, err |-> kind]

\* written = f(...); written += g(...): g runs only when f raised nothing.
Cat(a, b) ==
    IF a.err # "none" THEN a
    ELSE [out |-> a.out \o b.out, written |-> a.written + b.written, err |-> b.err]

\* A statement sequence: the rest F(r) runs only when r raised nothing.
Bind(r, F(_)) == IF r.ok THEN F(r) ELSE r

----------------------------------------------------------------------------
(* Primitive I/O: io.BytesIO and psd_tools2.utils.                         *)

\* fp.read(n): the next n bytes, or as many as are left; never an error.
fp_read(s, pos, n) ==
    LET e == IF n > Len(s) - pos THEN Len(s) ELSE pos + n
    IN  Ok(SubSeq(s, pos + 1, e), e)

\* struct's big-endian unsigned 32-bit image of n.
U32(n) == << (n \div 16777216) % 256, (n \div 65536) % 256,
             (n \div 256) % 256, n % 256 >>

FromU32(b) == ((b[1] * 256 + b[2]) * 256 + b[3]) * 256 + b[4]

\* read_fmt(fmt, fp) for a format of n bytes: exactly n bytes, or a
\* truncation error.
read_exact(s, pos, n) ==
    IF n > Len(s) - pos THEN Raise("FormatError", Len(s))
    ELSE Ok(SubSeq(s, pos + 1, pos + n), pos + n)

\* read_fmt('I', fp)[0]
read_fmt_I(s, pos) ==
    LET r == read_exact(s, pos, 4)
    IN  IF r.ok THEN Ok(FromU32(r.val), r.pos) ELSE r

\* write_fmt(fp, 'I', n)
write_fmt_I(n) == Wr(U32(n), 4)

\* write_bytes(fp, data)
write_bytes(data) == Wr(data, Len(data))

\* The padding that brings a block of n bytes to a multiple of 4.
PadLen(n, padding) == IF padding THEN (4 - (n % 4)) % 4 ELSE 0

Zeros(n) == [i \in 1..n |-> 0]

\* The UTF-16 big-endian image of a string of code units.
Utf16(str) == [i \in 1..(2 * Len(str)) |->
                 IF i % 2 = 1 THEN str[(i + 1) \div 2] \div 256
                 ELSE str[i \div 2] % 256]

FromUtf16(b) == [i \in 1..(Len(b) \div 2) |-> b[2 * i - 1] * 256 + b[2 * i]]

\* read_unicode_string(fp, padding): a 4-byte character count, the text,
\* and the padding when the padded mode is on.
read_unicode_string(s, pos, padding) ==
    LET c == read_fmt_I(s, pos)
    IN  IF ~c.ok THEN c
        ELSE LET t == IF c.val > Len(s) THEN Raise("FormatError", Len(s))
                      ELSE read_exact(s, c.pos, 2 * c.val)
             IN  IF ~t.ok THEN t
                 ELSE LET p == read_exact(s, t.pos, PadLen(4 + Len(t.val), padding))
                      IN  IF ~p.ok THEN p ELSE Ok(FromUtf16(t.val), p.pos)

\* write_unicode_string(fp, value, padding)
write_unicode_string(value, padding) ==
    LET body == Cat(write_fmt_I(Len(value)), write_bytes(Utf16(value)))
    IN  Cat(body, write_bytes(Zeros(PadLen(body.written, padding))))

\* read_length_block(fp): a 4-byte length and that many bytes.
read_length_block(s, pos) ==
    LET l == read_fmt_I(s, pos)
    IN  IF ~l.ok THEN l ELSE read_exact(s, l.pos, l.val)

\* write_length_block(fp, lambda f: write_bytes(f, data))
write_length_block(data) == Cat(write_fmt_I(Len(data)), write_bytes(data))

----------------------------------------------------------------------------
(* The Key codec.                                                          *)

\* read_length_and_key without its try/except: an unknown code is an error.
read_length_and_key_strict(s, pos) ==
    LET length == read_fmt_I(s, pos)
    IN  IF ~length.ok THEN length
        ELSE LET key == fp_read(s, length.pos, IF length.val = 0 THEN 4 ELSE length.val)
             IN  IF length.val = 0 /\ key.val \notin DescriptorClassIDValues
                 THEN Raise("ValueError", key.pos)
                 ELSE IF length.val = 0 THEN Ok(IdKey(key.val), key.pos)
                 ELSE Ok(BytesKey(key.val), key.pos)

\* read_length_and_key(fp)
read_length_and_key(s, pos) ==
    LET length == read_fmt_I(s, pos)
    IN  IF ~length.ok THEN length
        ELSE LET key == fp_read(s, length.pos, IF length.val = 0 THEN 4 ELSE length.val)
             IN  IF length.val = 0 /\ key.val \in DescriptorClassIDValues
                 THEN Ok(IdKey(key.val), key.pos)
                 ELSE Ok(BytesKey(key.val), key.pos)     \* Fallback.

\* value in DescriptorClassID: true of the members of the enumeration only.
InDescriptorClassID(value) == value.kind = "id"

\* write_length_and_key with "written = write_bytes(...)" where the code has
\* "written += write_bytes(...)": the four bytes of the length go uncounted.
write_length_and_key_uncounted(value) ==
    IF InDescriptorClassID(value)
    THEN [Cat(write_fmt_I(0), write_bytes(value.value))
             EXCEPT !.written = Len(value.value)]
    ELSE [Cat(write_fmt_I(Len(value.value)), write_bytes(value.value))
             EXCEPT !.written = Len(value.value)]

\* write_length_and_key(fp, value)
write_length_and_key(value) ==
    IF InDescriptorClassID(value)
    THEN Cat(write_fmt_I(0), write_bytes(value.value))
    ELSE Cat(write_fmt_I(Len(value.value)), write_bytes(value.value))

----------------------------------------------------------------------------
(* The type registry.                                                      *)

\* The @register(OSType.X) decorators of the module, in the order the
\* import runs them.
Registrations ==
    << <<OSType.DESCRIPTOR, "Descriptor">>,
       <<OSType.LIST, "List">>,
       <<OSType.PROPERTY, "Property">>,
       <<OSType.UNIT_FLOAT, "UnitFloat">>,
       <<OSType.UNIT_FLOATS, "UnitFloats">>,
       <<OSType.DOUBLE, "Double">>,
       <<OSType.STRING, "String">>,
       <<OSType.ENUMERATED_REFERENCE, "EnumeratedReference">>,
       <<OSType.OFFSET, "Offset">>,
       <<OSType.BOOLEAN, "Bool">>,
       <<OSType.LARGE_INTEGER, "LargeInteger">>,
       <<OSType.INTEGER, "Integer">>,
       <<OSType.ENUMERATED, "Enum">>,
       <<OSType.RAW_DATA, "RawData">>,
       <<OSType.CLASS1, "Class1">>,
       <<OSType.CLASS2, "Class2">>,
       <<OSType.CLASS3, "Class3">>,
       <<OSType.REFERENCE, "Reference">>,
       <<OSType.ALIAS, "Alias">>,
       <<OSType.GLOBAL_OBJECT, "GlobalObject">>,
       <<OSType.OBJECT_ARRAY, "ObjectArray">>,
       <<OSType.PATH, "Path">>,
       <<OSType.IDENTIFIER, "Identifier">>,
       <<OSType.INDEX, "Index">>,
       <<OSType.NAME, "Name">> >>

\* The class whose read and write a class runs: its own, or the one it
\* inherits (class Class1(Class): pass).
Base(cls) ==
    CASE cls \in {"Class1", "Class2", "Class3"} -> "Class"
      [] cls = "Reference" -> "List"
      [] cls \in {"Alias", "Path"} -> "RawData"
      [] cls \in {"GlobalObject", "ObjectArray"} -> "Descriptor"
      [] cls \in {"Identifier", "Index"} -> "Integer"
      [] cls = "Name" -> "String"
      [] OTHER -> cls

\* register(ostype)(cls): TYPES[ostype] = cls; setattr(cls, 'ostype', ostype).
\* Given and giving the pair <<TYPES, ostype>>.
register(reg, tag, cls) ==
    << [t \in DOMAIN reg[1] \cup {tag} |-> IF t = tag THEN cls ELSE reg[1][t]],
       [c \in DOMAIN reg[2] \cup {cls} |-> IF c = cls THEN tag ELSE reg[2][c]] >>

RECURSIVE RegisterAll(_, _, _)
RegisterAll(reg, regs, i) ==
    IF i > Len(regs) THEN reg
    ELSE RegisterAll(register(reg, regs[i][1], regs[i][2]), regs, i + 1)

\* TYPES = {} and no class with an ostype, before the decorators run.
EmptyRegistry == << [t \in {} |-> "None"], [c \in {} |-> <<>>] >>

\* The registry once the module is imported.
StaticRegistry == RegisterAll(EmptyRegistry, Registrations, 1)

\* TYPES.get(ostype)
TYPES_get(tag) == IF tag \in DOMAIN TYPES THEN TYPES[tag] ELSE "None"

\* OSType(fp.read(4)): the next four bytes as a member of OSType.
read_ostype(s, pos) ==
    LET b == fp_read(s, pos, 4)
    IN  IF b.val \in OSTypeValues THEN b ELSE Raise("ValueError", b.pos)

\* list(items) where the code has OrderedDict(items): every pair is kept.
ListOfPairs(pairs) == pairs

\* OrderedDict(items): a key met again keeps its first place and takes the
\* later value.
RECURSIVE OrderedDict(_)
OrderedDict(pairs) ==
    IF pairs = <<>> THEN <<>>
    ELSE LET n == Len(pairs)
             front == OrderedDict(SubSeq(pairs, 1, n - 1))
             last == pairs[n]
         IN  IF \E i \in 1..Len(front) : front[i][1] = last[1]
             THEN [i \in 1..Len(front) |->
                     IF front[i][1] = last[1] THEN last ELSE front[i]]
             ELSE Append(front, last)

----------------------------------------------------------------------------
(* Signed and wide numbers.  The value of a Double and of a LargeInteger   *)
(* is kept as its 8-byte big-endian image.                                 *)

\* struct 'i': big-endian signed 32-bit.
FromS32(b) ==
    (((IF b[1] >= 128 THEN b[1] - 256 ELSE b[1]) * 256 + b[2]) * 256 + b[3]) * 256 + b[4]

S32(v) ==
    IF v >= 0 THEN U32(v)
    ELSE LET u == U32((v + 2147483647) + 1)
         IN  <<u[1] + 128, u[2], u[3], u[4]>>

----------------------------------------------------------------------------
(* read: one operator per class body, and the dispatch on the class.       *)

RECURSIVE ReadElement(_, _, _)
RECURSIVE DescriptorItems(_, _, _, _)
RECURSIVE ListItems(_, _, _, _)

\* Lines 101-102 of Descriptor.read: the branch taken when the decoder gave
\* None calls warnings.warn, and the module never imports warnings.
NoneValue(key, tag, pos) == Raise("NameError", pos)

\* The loop of Descriptor.read: n more entries after those in acc.
DescriptorItems(s, pos, n, acc) ==
    IF n = 0 THEN Ok(acc, pos)
    ELSE
    Bind(read_length_and_key(s, pos), LAMBDA key :
    Bind(read_ostype(s, key.pos), LAMBDA tag :
        LET decoder == TYPES_get(tag.val)
        IN  IF decoder = "None" THEN Raise("ValueError", tag.pos)
            ELSE
            Bind(ReadElement(decoder, s, tag.pos), LAMBDA value :
                IF value.val = None THEN NoneValue(key.val, tag.val, value.pos)
                ELSE DescriptorItems(s, value.pos, n - 1,
                                     Append(acc, <<key.val, value.val>>)))))

\* Descriptor.read(fp), as cls
DescriptorRead(cls, s, pos) ==
    Bind(read_unicode_string(s, pos, TRUE), LAMBDA name :
    Bind(read_length_and_key(s, name.pos), LAMBDA classID :
    Bind(read_fmt_I(s, classID.pos), LAMBDA count :
    Bind(DescriptorItems(s, count.pos, count.val, <<>>), LAMBDA items :
        Ok([cls |-> cls, name |-> name.val, classID |-> classID.val,
            items |-> OrderedDict(items.val)], items.pos)))))

\* The loop of List.read.
ListItems(s, pos, n, acc) ==
    IF n = 0 THEN Ok(acc, pos)
    ELSE
    Bind(read_ostype(s, pos), LAMBDA key :
        LET decoder == TYPES_get(key.val)
        IN  IF decoder = "None" THEN Raise("ValueError", key.pos)
            ELSE
            Bind(ReadElement(decoder, s, key.pos), LAMBDA value :
                ListItems(s, value.pos, n - 1, Append(acc, value.val))))

\* List.read(fp), as cls
ListRead(cls, s, pos) ==
    Bind(read_fmt_I(s, pos), LAMBDA count :
    Bind(ListItems(s, count.pos, count.val, <<>>), LAMBDA items :
        Ok([cls |-> cls, items |-> items.val], items.pos)))

\* Property.read(fp)
PropertyRead(cls, s, pos) ==
    Bind(read_unicode_string(s, pos, FALSE), LAMBDA name :
    Bind(read_length_and_key(s, name.pos), LAMBDA classID :
    Bind(read_length_and_key(s, classID.pos), LAMBDA keyID :
        Ok([cls |-> cls, name |-> name.val, classID |-> classID.val,
            keyID |-> keyID.val], keyID.pos))))

\* UnitFloat.read(fp): cls(*read_fmt('4sd', fp)); the converter of unit
\* raises ValueError on a code that is no UnitFloatType.
UnitFloatRead(cls, s, pos) ==
    Bind(read_exact(s, pos, 12), LAMBDA r :
        IF SubSeq(r.val, 1, 4) \notin UnitFloatTypeValues
        THEN Raise("ValueError", r.pos)
        ELSE Ok([cls |-> cls, unit |-> SubSeq(r.val, 1, 4),
                 value |-> SubSeq(r.val, 5, 12)], r.pos))

\* UnitFloats.read(fp)
UnitFloatsRead(cls, s, pos) ==
    Bind(read_exact(s, pos, 4), LAMBDA unit :
    Bind(read_fmt_I(s, unit.pos), LAMBDA count :
    Bind(IF count.val > Len(s) THEN Raise("FormatError", Len(s))
         ELSE read_exact(s, count.pos, 8 * count.val), LAMBDA r :
        IF unit.val \notin UnitFloatTypeValues
        THEN Raise("ValueError", r.pos)
        ELSE Ok([cls |-> cls, unit |-> unit.val,
                 values |-> [i \in 1..count.val |->
                               SubSeq(r.val, 8 * i - 7, 8 * i)]], r.pos))))

\* Double.read(fp) and LargeInteger.read(fp): read_fmt('d') and read_fmt('q').
WideRead(cls, s, pos) ==
    Bind(read_exact(s, pos, 8), LAMBDA r :
        Ok([cls |-> cls, value |-> r.val], r.pos))

\* Class.read(fp)
ClassRead(cls, s, pos) ==
    Bind(read_unicode_string(s, pos, FALSE), LAMBDA name :
    Bind(read_length_and_key(s, name.pos), LAMBDA classID :
        Ok([cls |-> cls, name |-> name.val, classID |-> classID.val],
           classID.pos)))

\* String.read(fp)
StringRead(cls, s, pos) ==
    Bind(read_unicode_string(s, pos, TRUE), LAMBDA r :
        Ok([cls |-> cls, value |-> r.val], r.pos))

\* EnumeratedReference.read(fp)
EnumeratedReferenceRead(cls, s, pos) ==
    Bind(read_unicode_string(s, pos, FALSE), LAMBDA name :
    Bind(read_length_and_key(s, name.pos), LAMBDA classID :
    Bind(read_length_and_key(s, classID.pos), LAMBDA typeID :
    Bind(read_length_and_key(s, typeID.pos), LAMBDA enum :
        Ok([cls |-> cls, name |-> name.val, classID |-> classID.val,
            typeID |-> typeID.val, enum |-> enum.val], enum.pos)))))

\* Offset.read(fp)
OffsetRead(cls, s, pos) ==
    Bind(read_unicode_string(s, pos, FALSE), LAMBDA name :
    Bind(read_length_and_key(s, name.pos), LAMBDA classID :
    Bind(read_fmt_I(s, classID.pos), LAMBDA offset :
        Ok([cls |-> cls, name |-> name.val, classID |-> classID.val,
            value |-> offset.val], offset.pos))))

\* Bool.read(fp): read_fmt('?')
BoolRead(cls, s, pos) ==
    Bind(read_exact(s, pos, 1), LAMBDA r :
        Ok([cls |-> cls, value |-> (r.val[1] # 0)], r.pos))

\* Integer.read(fp): read_fmt('i')
IntegerRead(cls, s, pos) ==
    Bind(read_exact(s, pos, 4), LAMBDA r :
        Ok([cls |-> cls, value |-> FromS32(r.val)], r.pos))

\* Enum.read(fp)
EnumRead(cls, s, pos) ==
    Bind(read_length_and_key(s, pos), LAMBDA typeID :
    Bind(read_length_and_key(s, typeID.pos), LAMBDA enum :
        Ok([cls |-> cls, typeID |-> typeID.val, enum |-> enum.val], enum.pos)))

\* RawData.read(fp)
RawDataRead(cls, s, pos) ==
    Bind(read_length_block(s, pos), LAMBDA r :
        Ok([cls |-> cls, value |-> r.val], r.pos))

\* decoder.read(fp): the classmethod of the class, or the one it inherits,
\* building an instance of the class it was called on.  NoneDecoder is a
\* class registered from outside whose read returns None.
ReadElement(decoder, s, pos) ==
    CASE Base(decoder) = "Descriptor" -> DescriptorRead(decoder, s, pos)
      [] Base(decoder) = "List" -> ListRead(decoder, s, pos)
      [] Base(decoder) = "Property" -> PropertyRead(decoder, s, pos)
      [] Base(decoder) = "UnitFloat" -> UnitFloatRead(decoder, s, pos)
      [] Base(decoder) = "UnitFloats" -> UnitFloatsRead(decoder, s, pos)
      [] Base(decoder) \in {"Double", "LargeInteger"} -> WideRead(decoder, s, pos)
      [] Base(decoder) = "Class" -> ClassRead(decoder, s, pos)
      [] Base(decoder) = "String" -> StringRead(decoder, s, pos)
      [] Base(decoder) = "EnumeratedReference" -> EnumeratedReferenceRead(decoder, s, pos)
      [] Base(decoder) = "Offset" -> OffsetRead(decoder, s, pos)
      [] Base(decoder) = "Bool" -> BoolRead(decoder, s, pos)
      [] Base(decoder) = "Integer" -> IntegerRead(decoder, s, pos)
      [] Base(decoder) = "Enum" -> EnumRead(decoder, s, pos)
      [] Base(decoder) = "RawData" -> RawDataRead(decoder, s, pos)
      [] Base(decoder) = "NoneDecoder" -> Ok(None, pos)

\* BaseElement.frombytes(data): read from a fresh stream over data.
frombytes(cls, data) == ReadElement(cls, data, 0)

----------------------------------------------------------------------------
(* write: one operator per class body, and the dispatch on the class.      *)

RECURSIVE WriteElement(_)
RECURSIVE DescriptorWriteItems(_, _)
RECURSIVE ListWriteItems(_, _)

\* write_ostype with the tag of the class whose write runs, not of the
\* item's own class.
write_ostype_of_base(item) ==
    IF Base(item.cls) \in DOMAIN ostype THEN write_bytes(ostype[Base(item.cls)])
    ELSE WrRaise("AttributeError")

\* write_bytes(fp, item.ostype.value): the tag register() stored on the
\* class of the item; an object of a class with no ostype has none to give.
write_ostype(item) ==
    IF item.cls \in DOMAIN ostype THEN write_bytes(ostype[item.cls])
    ELSE WrRaise("AttributeError")

\* The loop of Descriptor.write, from entry i on.
DescriptorWriteItems(items, i) ==
    IF i > Len(items) THEN Wr(<<>>, 0)
    ELSE Cat(write_length_and_key(items[i][1]),
         Cat(write_ostype(items[i][2]),
         Cat(WriteElement(items[i][2]),
             DescriptorWriteItems(items, i + 1))))

\* Descriptor.write(fp)
DescriptorWrite(self) ==
    Cat(write_unicode_string(self.name, TRUE),
    Cat(write_length_and_key(self.classID),
    Cat(write_fmt_I(Len(self.items)),
        DescriptorWriteItems(self.items, 1))))

\* The loop of List.write, from item i on.
ListWriteItems(items, i) ==
    IF i > Len(items) THEN Wr(<<>>, 0)
    ELSE Cat(write_ostype(items[i]),
         Cat(WriteElement(items[i]),
             ListWriteItems(items, i + 1)))

\* List.write(fp)
ListWrite(self) ==
    Cat(write_fmt_I(Len(self.items)), ListWriteItems(self.items, 1))

\* Property.write(fp)
PropertyWrite(self) ==
    Cat(write_unicode_string(self.name, FALSE),
    Cat(write_length_and_key(self.classID),
        write_length_and_key(self.keyID)))

\* UnitFloat.write(fp): write_fmt(fp, '4sd', unit, value)
UnitFloatWrite(self) == Wr(self.unit \o self.value, 12)

RECURSIVE Flatten(_)
Flatten(seqs) == IF seqs = <<>> THEN <<>> ELSE Head(seqs) \o Flatten(Tail(seqs))

\* UnitFloats.write(fp): write_fmt(fp, '4sI%dd', unit, len(values), *values)
UnitFloatsWrite(self) ==
    Wr(self.unit \o U32(Len(self.values)) \o Flatten(self.values),
       8 + 8 * Len(self.values))

\* Double.write(fp) and LargeInteger.write(fp)
WideWrite(self) == Wr(self.value, 8)

\* Class.write(fp)
ClassWrite(self) ==
    Cat(write_unicode_string(self.name, FALSE),
        write_length_and_key(self.classID))

\* String.write(fp)
StringWrite(self) == write_unicode_string(self.value, TRUE)

\* EnumeratedReference.write(fp)
EnumeratedReferenceWrite(self) ==
    Cat(write_unicode_string(self.name, FALSE),
    Cat(write_length_and_key(self.classID),
    Cat(write_length_and_key(self.typeID),
        write_length_and_key(self.enum))))

\* Offset.write(fp)
OffsetWrite(self) ==
    Cat(write_unicode_string(self.name, FALSE),
    Cat(write_length_and_key(self.classID),
        write_fmt_I(self.value)))

\* Bool.write(fp): write_fmt(fp, '?', value)
BoolWrite(self) == Wr(<<IF self.value THEN 1 ELSE 0>>, 1)

\* Integer.write(fp): write_fmt(fp, 'i', value)
IntegerWrite(self) == Wr(S32(self.value), 4)

\* Enum.write(fp)
EnumWrite(self) ==
    Cat(write_length_and_key(self.typeID), write_length_and_key(self.enum))

\* RawData.write(fp)
RawDataWrite(self) == write_length_block(self.value)

\* item.write(fp): the method of the item's class, or the one it inherits;
\* None has no write.
WriteElement(self) ==
    CASE Base(self.cls) = "Descriptor" -> DescriptorWrite(self)
      [] Base(self.cls) = "List" -> ListWrite(self)
      [] Base(self.cls) = "Property" -> PropertyWrite(self)
      [] Base(self.cls) = "UnitFloat" -> UnitFloatWrite(self)
      [] Base(self.cls) = "UnitFloats" -> UnitFloatsWrite(self)
      [] Base(self.cls) \in {"Double", "LargeInteger"} -> WideWrite(self)
      [] Base(self.cls) = "Class" -> ClassWrite(self)
      [] Base(self.cls) = "String" -> StringWrite(self)
      [] Base(self.cls) = "EnumeratedReference" -> EnumeratedReferenceWrite(self)
      [] Base(self.cls) = "Offset" -> OffsetWrite(self)
      [] Base(self.cls) = "Bool" -> BoolWrite(self)
      [] Base(self.cls) = "Integer" -> IntegerWrite(self)
      [] Base(self.cls) = "Enum" -> EnumWrite(self)
      [] Base(self.cls) = "RawData" -> RawDataWrite(self)
      [] OTHER -> WrRaise("AttributeError")

\* BaseElement.tobytes(): write to a fresh stream and give its bytes.
tobytes(self) == WriteElement(self)

\* Descriptor.__getitem__(key), for a key that is bytes, a text string
\* (kind "str") or a DescriptorClassID member: a member has no encode().
getitem(self, key) ==
    IF key.kind \notin {"bytes", "str"} THEN Raise("AttributeError", 0)
    ELSE LET k == BytesKey(key.value)
         IN  IF \E i \in 1..Len(self.items) : self.items[i][1] = k
             THEN Ok((CHOOSE p \in {self.items[i] : i \in 1..Len(self.items)} :
                        p[1] = k)[2], 0)
             ELSE Raise("KeyError", 0)

\* DictElement.__iter__: the keys of items, in order.
iter(self) == [i \in 1..Len(self.items) |-> self.items[i][1]]

----------------------------------------------------------------------------
(* Documents: the streams the decoder is given.  A document is a tree of   *)
(* the same record shapes as the elements, with every key in one of its    *)
(* two stored forms, and FileBytes lays it out as the format says.  A node *)
(* of class Unknown carries a tag that is no OSType; a node of class       *)
(* Absent is a tag with no body.                                           *)

StoredCode(v) == [form |-> "code", value |-> v]     \* length 0, 4-byte code
StoredText(v) == [form |-> "text", value |-> v]     \* length, then the bytes

FileKey(k) ==
    IF k.form = "code" THEN U32(0) \o k.value
    ELSE U32(Len(k.value)) \o k.value

FileString(str, padding) ==
    U32(Len(str)) \o Utf16(str) \o Zeros(PadLen(4 + 2 * Len(str), padding))

\* A tag outside OSType.
UnknownTag == <<88, 88, 88, 88>>                    \* 'XXXX'

FileTag(node) ==
    CASE node.cls = "Unknown" -> UnknownTag
      [] node.cls = "Absent" -> node.tag
      [] OTHER -> (CHOOSE r \in {Registrations[i] : i \in 1..Len(Registrations)} :
                     r[2] = node.cls)[1]

RECURSIVE FileBytes(_)
FileBytes(node) ==
    CASE Base(node.cls) = "Descriptor" ->
            FileString(node.name, TRUE) \o FileKey(node.classID)
            \o U32(Len(node.items))
            \o Flatten([i \in 1..Len(node.items) |->
                          FileKey(node.items[i][1]) \o FileTag(node.items[i][2])
                          \o FileBytes(node.items[i][2])])
      [] Base(node.cls) = "List" ->
            U32(Len(node.items))
            \o Flatten([i \in 1..Len(node.items) |->
                          FileTag(node.items[i]) \o FileBytes(node.items[i])])
      [] Base(node.cls) = "Property" ->
            FileString(node.name, FALSE) \o FileKey(node.classID) \o FileKey(node.keyID)
      [] Base(node.cls) = "Class" ->
            FileString(node.name, FALSE) \o FileKey(node.classID)
      [] Base(node.cls) = "EnumeratedReference" ->
            FileString(node.name, FALSE) \o FileKey(node.classID)
            \o FileKey(node.typeID) \o FileKey(node.enum)
      [] Base(node.cls) = "Offset" ->
            FileString(node.name, FALSE) \o FileKey(node.classID) \o U32(node.value)
      [] Base(node.cls) = "Enum" -> FileKey(node.typeID) \o FileKey(node.enum)
      [] Base(node.cls) = "String" -> FileString(node.value, TRUE)
      [] Base(node.cls) = "Integer" -> S32(node.value)
      [] Base(node.cls) = "Bool" -> <<IF node.value THEN 1 ELSE 0>>
      [] Base(node.cls) = "RawData" -> U32(Len(node.value)) \o node.value
      [] Base(node.cls) \in {"Double", "LargeInteger"} -> node.value
      [] Base(node.cls) = "UnitFloat" -> node.unit \o node.value
      [] Base(node.cls) = "UnitFloats" ->
            node.unit \o U32(Len(node.values)) \o Flatten(node.values)
      [] node.cls = "Unknown" -> node.body
      [] node.cls = "Absent" -> <<>>

\* The Key a stored key stands for.
KeyOf(k) ==
    IF k.form = "code" /\ k.value \in DescriptorClassIDValues
    THEN IdKey(k.value) ELSE BytesKey(k.value)

KeyFields == {"classID", "keyID", "typeID", "enum"}

\* The element a document stands for.
RECURSIVE Parsed(_)
Parsed(node) ==
    IF node.cls = "Absent" THEN None
    ELSE [f \in DOMAIN node |->
            CASE f \in KeyFields -> KeyOf(node[f])
              [] f = "items" /\ Base(node.cls) = "Descriptor" ->
                    OrderedDict([i \in 1..Len(node.items) |->
                                   <<KeyOf(node.items[i][1]), Parsed(node.items[i][2])>>])
              [] f = "items" /\ Base(node.cls) = "List" ->
                    [i \in 1..Len(node.items) |-> Parsed(node.items[i])]
              [] OTHER -> node[f]]

\* The nodes of a tree: the tree and everything below it.
RECURSIVE Nodes(_)
Nodes(node) ==
    {node} \cup
    (IF Base(node.cls) = "Descriptor"
     THEN UNION {Nodes(node.items[i][2]) : i \in 1..Len(node.items)}
     ELSE IF Base(node.cls) = "List"
     THEN UNION {Nodes(node.items[i]) : i \in 1..Len(node.items)}
     ELSE {})

\* The keys a tree holds: entry keys and the key-valued fields.
NodeKeys(node) ==
    {node[f] : f \in DOMAIN node \cap KeyFields} \cup
    (IF Base(node.cls) = "Descriptor"
     THEN {node.items[i][1] : i \in 1..Len(node.items)} ELSE {})

TreeKeys(tree) == UNION {NodeKeys(n) : n \in Nodes(tree)}

----------------------------------------------------------------------------
(* The inputs: the elements built in memory and the documents decoded.     *)

\* The most entries of a container, and the longest key of repeated 'k'.
MaxItems == 2
MaxKeyLen == 2

KeyText(n) == [i \in 1..n |-> 107]                  \* 'k' * n
NmCode == <<78, 109, 32, 32>>                       \* 'Nm  ', no well-known code

Names == {<<>>, <<120>>}                            \* '' and 'x'

\* Keys of elements: the members, bytes that spell a member's code, bytes
\* that spell another code, and bytes of length 0..MaxKeyLen.
MemKeys ==
    {IdKey(c) : c \in DescriptorClassIDValues}
    \cup {BytesKey(NmCode), BytesKey(DescriptorClassID.NULL)}
    \cup {BytesKey(KeyText(n)) : n \in 0..MaxKeyLen}

\* Keys of documents: codes in the 0-length form, well-known or not, and
\* texts in the long form, one of them spelling a well-known code.
FileKeys ==
    {StoredCode(c) : c \in DescriptorClassIDValues \cup {NmCode}}
    \cup {StoredText(DescriptorClassID.NULL)}
    \cup {StoredText(KeyText(n)) : n \in 1..MaxKeyLen}

Int5 == [cls |-> "Integer", value |-> 5]
BoolT == [cls |-> "Bool", value |-> TRUE]

Scalars ==
    {Int5, BoolT,
     [cls |-> "Integer", value |-> -2],
     [cls |-> "Identifier", value |-> 5],
     [cls |-> "Index", value |-> 7],
     [cls |-> "Bool", value |-> FALSE],
     [cls |-> "String", value |-> <<>>],
     [cls |-> "String", value |-> <<120>>],
     [cls |-> "String", value |-> <<120, 121>>],
     [cls |-> "Name", value |-> <<120>>],
     [cls |-> "RawData", value |-> <<1, 2, 3>>],
     [cls |-> "RawData", value |-> <<>>],
     [cls |-> "Alias", value |-> <<1>>],
     [cls |-> "Path", value |-> <<2, 2>>],
     [cls |-> "Double", value |-> <<64, 9, 33, 0, 0, 0, 0, 0>>],
     [cls |-> "LargeInteger", value |-> <<0, 0, 0, 1, 0, 0, 0, 2>>],
     [cls |-> "UnitFloat", unit |-> UnitFloatType.PIXELS,
      value |-> <<64, 9, 33, 0, 0, 0, 0, 0>>],
     [cls |-> "UnitFloats", unit |-> UnitFloatType.NONE, values |-> <<>>],
     [cls |-> "UnitFloats", unit |-> UnitFloatType.PIXELS,
      values |-> << <<64, 9, 33, 0, 0, 0, 0, 0>> >>]}

\* The leaves that hold keys, with keys of K; k0 where one key is enough.
KeyedLeaves(K, k0) ==
    {[cls |-> "Enum", typeID |-> t, enum |-> e] : t \in K, e \in K}
    \cup {[cls |-> "Class1", name |-> n, classID |-> c] : n \in Names, c \in K}
    \cup {[cls |-> c, name |-> <<>>, classID |-> k0] : c \in {"Class2", "Class3"}}
    \cup {[cls |-> "Property", name |-> <<120>>, classID |-> k0, keyID |-> k] : k \in K}
    \cup {[cls |-> "Property", name |-> <<>>, classID |-> k, keyID |-> k0] : k \in K}
    \cup {[cls |-> "Offset", name |-> <<>>, classID |-> c, value |-> 7] : c \in K}
    \cup {[cls |-> "EnumeratedReference", name |-> <<>>, classID |-> c,
           typeID |-> k0, enum |-> c] : c \in K}
    \cup {[cls |-> "EnumeratedReference", name |-> <<>>, classID |-> k0,
           typeID |-> k0, enum |-> e] : e \in K}
    \cup {[cls |-> "EnumeratedReference", name |-> <<120>>, classID |-> k0,
           typeID |-> t, enum |-> k0] : t \in K}

SeqsUpTo(S, n) == UNION {[1..m -> S] : m \in 0..n}

DistinctKeys(items) ==
    \A i, j \in 1..Len(items) : i # j => items[i][1] # items[j][1]

\* Descriptors over every key of K, as classID and as entry keys, in every
\* order; with a key repeated when repeats is set.
KeyFamily(K, repeats) ==
    {[cls |-> "Descriptor", name |-> n, classID |-> c, items |-> it] :
        n \in Names, c \in K,
        it \in {s \in SeqsUpTo(K \X {Int5}, MaxItems) : repeats \/ DistinctKeys(s)}}

\* One leaf in a Descriptor, alone and followed by another entry, and in a
\* List.
LeafFamily(leaves, kc, k1, k2) ==
    {[cls |-> "Descriptor", name |-> <<>>, classID |-> kc,
      items |-> << <<k1, l>> >>] : l \in leaves}
    \cup {[cls |-> "Descriptor", name |-> <<>>, classID |-> kc,
           items |-> << <<k1, l>>, <<k2, Int5>> >>] : l \in leaves}
    \cup {[cls |-> "List", items |-> <<l>>] : l \in leaves}

\* Containers to nest, to a depth of three below the outer one.
Inner(kc, k1) ==
    {[cls |-> "Descriptor", name |-> <<120>>, classID |-> kc,
      items |-> << <<k1, Int5>> >>],
     [cls |-> "Descriptor", name |-> <<>>, classID |-> k1, items |-> <<>>],
     [cls |-> "GlobalObject", name |-> <<>>, classID |-> kc,
      items |-> << <<k1, [cls |-> "List", items |-> <<BoolT>>]>> >>],
     [cls |-> "ObjectArray", name |-> <<>>, classID |-> kc,
      items |-> << <<kc, BoolT>>, <<k1, Int5>> >>],
     [cls |-> "List", items |-> <<>>],
     [cls |-> "List", items |-> <<Int5, BoolT>>],
     [cls |-> "Reference", items |-> <<[cls |-> "Property", name |-> <<>>,
                                       classID |-> kc, keyID |-> k1]>>],
     [cls |-> "List", items |->
        <<[cls |-> "List", items |->
             <<[cls |-> "Descriptor", name |-> <<>>, classID |-> kc,
                items |-> << <<k1, Int5>> >>]>>]>>]}

\* Containers of every container class over the children, in every order;
\* the i-th entry of a Descriptor has the i-th key of keys.
NestFamily(children, kc, keys) ==
    {[cls |-> c, name |-> <<>>, classID |-> kc,
      items |-> [i \in 1..Len(s) |-> <<keys[i], s[i]>>]] :
        c \in {"Descriptor", "GlobalObject"}, s \in SeqsUpTo(children, MaxItems)}
    \cup {[cls |-> c, items |-> s] :
        c \in {"List", "Reference"}, s \in SeqsUpTo(children, MaxItems)}

MemNull == IdKey(DescriptorClassID.NULL)
MemLayer == IdKey(DescriptorClassID.LAYER)
MemText == [i \in 1..(MaxItems + 1) |-> BytesKey(KeyText(i))]

\* The elements built in memory.
Elements ==
    KeyFamily(MemKeys, FALSE)
    \cup LeafFamily(Scalars \cup KeyedLeaves(MemKeys, MemNull),
                    MemNull, BytesKey(NmCode), MemLayer)
    \cup NestFamily(Inner(MemNull, BytesKey(NmCode)) \cup {Int5, BoolT},
                    MemLayer, MemText)

FileNull == StoredCode(DescriptorClassID.NULL)
FileLayer == StoredCode(DescriptorClassID.LAYER)
FileText == [i \in 1..(MaxItems + 1) |-> StoredText(KeyText(i))]

\* An entry whose tag is no OSType.
Unknown == [cls |-> "Unknown", body |-> <<1, 2>>]

\* An entry that is a tag and nothing more.
Absent == [cls |-> "Absent", tag |-> OSType.PATH]

\* The documents of the well-formed kind, and those cut short below.
LeafDocuments ==
    LeafFamily(Scalars \cup KeyedLeaves(FileKeys, FileNull),
               FileNull, StoredCode(NmCode), FileLayer)

\* The documents decoded: extra holds the entries beyond the registered
\* variants.
Documents(extra) ==
    KeyFamily(FileKeys, TRUE)
    \cup LeafDocuments
    \cup LeafFamily(extra, FileNull, StoredCode(NmCode), FileLayer)
    \cup NestFamily(Inner(FileNull, StoredCode(NmCode)) \cup {Int5, BoolT} \cup extra,
                    FileLayer, FileText)

\* The documents of which every proper prefix is decoded too.
CutDocuments == {d \in LeafDocuments : Len(d.items) = 1}

Files(extra) ==
    {[doc |-> d, cut |-> Len(FileBytes(d))] : d \in Documents(extra)}
    \cup UNION {{[doc |-> d, cut |-> c] : c \in 0..(Len(FileBytes(d)) - 1)} :
                  d \in CutDocuments}

Whole(f) == f.cut = Len(FileBytes(f.doc))

----------------------------------------------------------------------------
(* The driver: an element is encoded and decoded back; a document is       *)
(* decoded and encoded again; a Descriptor is iterated and indexed.        *)

NoThreads == <<>>

InitRegistry ==
    /\ TYPES = StaticRegistry[1]
    /\ ostype = StaticRegistry[2]

InitIdle ==
    /\ res = NoValue
    /\ out = NoValue
    /\ got = NoValue
    /\ fp = NoThreads
    /\ cur = NoThreads
    /\ stack = NoThreads
    /\ done = NoThreads

InitElement ==
    /\ pc = "new"
    /\ elem \in Elements
    /\ file = NoValue
    /\ stream = <<>>

InitFile(extra) ==
    /\ pc = "file"
    /\ elem = NoValue
    /\ file \in Files(extra)
    /\ stream = SubSeq(FileBytes(file.doc), 1, file.cut)

Init ==
    /\ InitRegistry
    /\ InitIdle
    /\ (InitElement \/ InitFile({Unknown}))

\* elem.write(fp) on a fresh stream
Encode ==
    /\ pc = "new"
    /\ out' = tobytes(elem)
    /\ stream' = out'.out
    /\ pc' = "encoded"
    /\ UNCHANGED <<TYPES, ostype, elem, file, res, got, fp, cur, stack, done>>

\* cls.read(fp) on the stream, for the class the stream was written as
Decode ==
    /\ pc \in {"encoded", "file"}
    /\ pc = "encoded" => out.err = "none"
    /\ res' = frombytes(IF pc = "encoded" THEN elem.cls ELSE file.doc.cls, stream)
    /\ pc' = "decoded"
    /\ UNCHANGED <<TYPES, ostype, elem, file, stream, out, got, fp, cur, stack, done>>

\* res.write(fp) on a fresh stream
Reencode ==
    /\ pc = "decoded"
    /\ res.ok
    /\ out' = tobytes(res.val)
    /\ pc' = "reencoded"
    /\ UNCHANGED <<TYPES, ostype, elem, file, stream, res, got, fp, cur, stack, done>>

\* for key in d: d[key], one turn of the loop
GetItem ==
    /\ pc \in {"new", "decoded"}
    /\ pc = "decoded" => res.ok
    /\ LET d == IF pc = "new" THEN elem ELSE res.val
       IN  /\ Base(d.cls) = "Descriptor"
           /\ \E i \in 1..Len(iter(d)) :
                got' = [d |-> d, i |-> i, key |-> iter(d)[i],
                        r |-> getitem(d, iter(d)[i])]
    /\ pc' = "looked_up"
    /\ UNCHANGED <<TYPES, ostype, elem, file, stream, res, out, fp, cur, stack, done>>

Next == Encode \/ Decode \/ Reencode \/ GetItem

Spec == Init /\ [][Next]_vars

----------------------------------------------------------------------------
(* The claims.                                                             *)

HasUnknown(doc) == \E n \in Nodes(doc) : n.cls = "Unknown"

\* The elements a container holds directly.
Children(node) ==
    IF Base(node.cls) = "Descriptor"
    THEN {node.items[i][2] : i \in 1..Len(node.items)}
    ELSE IF Base(node.cls) = "List"
    THEN {node.items[i] : i \in 1..Len(node.items)}
    ELSE {}

\* C1: an element built from the registered variants, whatever the kind and
\* length of its keys, is read back from the bytes it wrote as an equal
\* element: same classes, names, keys, key kinds and order.
C1_RoundTrip ==
    (pc = "decoded" /\ elem # NoValue) => (res.ok /\ res.val = elem)

\* A document in canonical form: no well-known code is spelled out in the
\* long form, and no Descriptor repeats a key.
Canonical(doc) ==
    /\ \A k \in TreeKeys(doc) :
          k.form = "text" => k.value \notin DescriptorClassIDValues
    /\ \A n \in Nodes(doc) : Base(n.cls) = "Descriptor" => DistinctKeys(n.items)

\* C2: a canonical stream that decodes as a Descriptor is reproduced byte
\* for byte by read followed by write, also when it stores a key as length 0
\* and a 4-byte code.
C2_BytesReproduced ==
    (pc = "reencoded" /\ file # NoValue /\ Whole(file) /\ Canonical(file.doc))
        => (out.err = "none" /\ out.out = stream)

\* The kind of error the decoder raises on an unregistered tag.
UnknownTagError == "ValueError"

\* C3: a stream with an unregistered tag at any depth fails with the
\* unknown-tag error and returns no tree, and a truncated stream never
\* fails with that kind of error.
C3_UnknownTagRejected ==
    (pc = "decoded" /\ file # NoValue) =>
        /\ (Whole(file) /\ HasUnknown(file.doc)) =>
              (~res.ok /\ res.err = UnknownTagError /\ res.val = NoValue)
        /\ (~Whole(file) /\ ~res.ok) => res.err # UnknownTagError

\* C4: a truncated stream never decodes to an element.
C4_TruncatedAborts ==
    (pc = "decoded" /\ file # NoValue /\ ~Whole(file)) => ~res.ok

\* The compact form of a key whose bytes spell a well-known code, and the
\* long form of any other.
CompactForm(k) ==
    IF k.value \in DescriptorClassIDValues THEN U32(0) \o k.value
    ELSE U32(Len(k.value)) \o k.value

\* C5: the classID of a Descriptor is written as length 0 and the code
\* whenever its bytes spell a well-known code, be it the identifier or a
\* bytes key of the same payload, and as length and bytes otherwise.
C5_CompactKey ==
    (pc = "encoded" /\ Base(elem.cls) = "Descriptor") =>
        LET n == write_unicode_string(elem.name, TRUE).written
            k == CompactForm(elem.classID)
        IN  out.err = "none" /\ SubSeq(out.out, n + 1, n + Len(k)) = k

\* A document that stores, in the 0-length form, a code outside the
\* well-known set.
HasFallbackKey(doc) ==
    \E k \in TreeKeys(doc) :
        k.form = "code" /\ k.value \notin DescriptorClassIDValues

\* C6: length 0 followed by a code outside the well-known set is read as
\* the bytes key of those four bytes, and the decode around it completes:
\* every later field is read from its place, to the end of the stream.
C6_FallbackKey ==
    (pc = "decoded" /\ file # NoValue /\ Whole(file)
        /\ ~HasUnknown(file.doc) /\ HasFallbackKey(file.doc))
        => (res.ok /\ res.val = Parsed(file.doc) /\ res.pos = Len(stream))

\* C6 happens: an Offset whose classID is such a code, its value and a
\* further entry after it, decoded.
C6_Witness ==
    /\ pc = "decoded" /\ file # NoValue /\ Whole(file) /\ res.ok
    /\ Base(file.doc.cls) = "Descriptor" /\ Len(file.doc.items) = 2
    /\ file.doc.items[1][2].cls = "Offset"
    /\ file.doc.items[1][2].classID = StoredCode(NmCode)
    /\ res.val.items[1][2].classID = BytesKey(NmCode)
    /\ res.val.items[2][2] = Int5

\* The tag a container writes for an item re-dispatches to the item's class.
TagRedispatches(item) ==
    LET w == write_ostype(item)
    IN  w.err = "none" /\ TYPES_get(w.out) = item.cls

\* What a container writes for its items: each item's stored tag followed
\* by the item's body (after the item's key, in a Descriptor).
ItemsImage(node) ==
    Flatten([i \in 1..Len(node.items) |->
        IF Base(node.cls) = "Descriptor"
        THEN write_length_and_key(node.items[i][1]).out
             \o ostype[node.items[i][2].cls] \o WriteElement(node.items[i][2]).out
        ELSE ostype[node.items[i].cls] \o WriteElement(node.items[i]).out])

\* The element last written, when one was.
Written ==
    IF pc = "encoded" THEN elem ELSE IF pc = "reencoded" THEN res.val ELSE NoValue

C10_IterLookup ==
    pc = "looked_up" => (got.r.ok /\ got.r.val = got.d.items[got.i][2])

----------------------------------------------------------------------------
(* A decoder registered from outside.  register() is the module's public   *)
(* decorator: a caller registers a class for OSType.PATH whose read gives  *)
(* None, then decodes documents in which that tag has no body.             *)

PluginDocuments ==
    LeafFamily({Absent}, FileNull, StoredCode(NmCode), FileLayer)
    \cup NestFamily(Inner(FileNull, StoredCode(NmCode)) \cup {Int5, BoolT, Absent},
                    FileLayer, FileText)

InitPlugin ==
    /\ InitRegistry
    /\ InitIdle
    /\ pc = "import"
    /\ elem = NoValue
    /\ file \in {[doc |-> d, cut |-> Len(FileBytes(d))] : d \in PluginDocuments}
    /\ stream = FileBytes(file.doc)

\* @register(OSType.PATH) class NoneDecoder
Register ==
    /\ pc = "import"
    /\ LET reg == register(<<TYPES, ostype>>, OSType.PATH, "NoneDecoder")
       IN  TYPES' = reg[1] /\ ostype' = reg[2]
    /\ pc' = "file"
    /\ UNCHANGED <<elem, file, stream, res, out, got, fp, cur, stack, done>>

NextPlugin == Register \/ Decode \/ Reencode \/ GetItem

SpecPlugin == InitPlugin /\ [][NextPlugin]_vars

\* A Descriptor of the document has an entry for which the decoder gives
\* None.
HasAbsentEntry(doc) ==
    \E n \in Nodes(doc) :
        Base(n.cls) = "Descriptor" /\ \E c \in Children(n) : c.cls = "Absent"

\* C7: when the decoder of an entry gives None, Descriptor.read goes on: the
\* entry (key, None) is recorded in its place and the entries after it are
\* decoded.
C7_NoneRecorded ==
    (pc = "decoded" /\ HasAbsentEntry(file.doc))
        => (res.ok /\ res.val = Parsed(file.doc) /\ res.pos = Len(stream))

----------------------------------------------------------------------------
(* Concurrent decodes.  Each thread runs Descriptor.read on a stream of    *)
(* its own; one step is one turn of a read loop, or the return of a read.  *)
(* The locals of the reads in progress (name, classID, items, the entries  *)
(* still to come) are the frames of the thread's stack; TYPES and the      *)
(* ostype of the classes are what the threads share.                       *)

MaxThreads == 2

Threads == 1..MaxThreads

\* TYPES.pop(ostype) where the code has TYPES.get(ostype).
TYPES_after_pop(tag) == [t \in DOMAIN TYPES \ {tag} |-> TYPES[t]]

\* TYPES after TYPES.get(ostype): a lookup leaves the dict as it was.
TYPES_after_get(tag) == TYPES

\* The streams the threads decode.
ThreadDocument(c) ==
    [cls |-> "Descriptor", name |-> <<>>, classID |-> FileLayer,
     items |-> << <<StoredCode(NmCode), c>> >>]

ThreadLeaves ==
    {Int5, Unknown,
     [cls |-> "Reference", items |->
        <<[cls |-> "Property", name |-> <<>>, classID |-> FileNull,
           keyID |-> StoredCode(NmCode)]>>]}

ThreadNested ==
    {[cls |-> "List", items |-> <<Int5, BoolT>>],
     [cls |-> "GlobalObject", name |-> <<>>, classID |-> FileNull,
      items |-> << <<StoredText(KeyText(1)),
                     [cls |-> "List", items |-> <<BoolT>>]>> >>]}

\* Whole files, and the files with a container inside cut one byte short.
ThreadStreams ==
    {FileBytes(ThreadDocument(c)) : c \in ThreadLeaves \cup ThreadNested}
    \cup {SubSeq(FileBytes(ThreadDocument(c)), 1,
                  Len(FileBytes(ThreadDocument(c))) - 1) : c \in ThreadNested}

InitThreads ==
    /\ InitRegistry
    /\ pc = "threads"
    /\ elem = NoValue
    /\ file = NoValue
    /\ stream = <<>>
    /\ res = NoValue
    /\ got = NoValue
    /\ fp \in [Threads -> ThreadStreams]
    /\ cur = [t \in Threads |-> 0]
    /\ stack = [t \in Threads |-> <<>>]
    /\ done = [t \in Threads |-> NoValue]
    /\ out = [t \in Threads |-> NoValue]

\* The start of cls.read(fp) for a container class: the fields before the
\* loop, as a frame; key is the key the caller read for it.
Enter(cls, key, s, pos) ==
    IF Base(cls) = "Descriptor"
    THEN Bind(read_unicode_string(s, pos, TRUE), LAMBDA name :
         Bind(read_length_and_key(s, name.pos), LAMBDA classID :
         Bind(read_fmt_I(s, classID.pos), LAMBDA count :
             Ok([cls |-> cls, key |-> key, name |-> name.val,
                 classID |-> classID.val, count |-> count.val, items |-> <<>>],
                count.pos))))
    ELSE Bind(read_fmt_I(s, pos), LAMBDA count :
             Ok([cls |-> cls, key |-> key, count |-> count.val, items |-> <<>>],
                count.pos))

\* return cls(name, classID, items) and return cls(items)
Leave(frame) ==
    IF Base(frame.cls) = "Descriptor"
    THEN [cls |-> frame.cls, name |-> frame.name, classID |-> frame.classID,
          items |-> OrderedDict(frame.items)]
    ELSE [cls |-> frame.cls, items |-> frame.items]

\* items.append((key, value)) and items.append(value); one turn is done.
Appended(frame, key, value) ==
    [frame EXCEPT !.items = Append(@, IF Base(frame.cls) = "Descriptor"
                                      THEN <<key, value>> ELSE value),
                  !.count = @ - 1]

Push(t, frame) == [stack EXCEPT ![t] = Append(@, frame)]

ReplaceTop(t, frame) == [stack EXCEPT ![t] = [@ EXCEPT ![Len(@)] = frame]]

\* The exception leaves every read of the thread.
Fail(t, r) ==
    /\ done' = [done EXCEPT ![t] = r]
    /\ stack' = [stack EXCEPT ![t] = <<>>]
    /\ cur' = [cur EXCEPT ![t] = r.pos]

\* Descriptor.read(fp) is called on the thread's stream.
ThreadCall(t) ==
    /\ done[t] = NoValue
    /\ stack[t] = <<>>
    /\ cur[t] = 0
    /\ LET r == Enter("Descriptor", NoValue, fp[t], 0)
       IN  IF r.ok
           THEN /\ stack' = Push(t, r.val)
                /\ cur' = [cur EXCEPT ![t] = r.pos]
                /\ UNCHANGED done
           ELSE Fail(t, r)
    /\ UNCHANGED <<TYPES, ostype, pc, elem, file, stream, res, out, got, fp>>

\* One turn of the loop of the innermost read: the key (in a Descriptor),
\* the tag, the lookup in TYPES, and the read of the value, which for a
\* container begins a read of its own.
ThreadTurn(t) ==
    /\ done[t] = NoValue
    /\ stack[t] # <<>>
    /\ LET top == stack[t][Len(stack[t])]
           key == IF Base(top.cls) = "Descriptor"
                  THEN read_length_and_key(fp[t], cur[t])
                  ELSE Ok(NoValue, cur[t])
           tag == Bind(key, LAMBDA k : read_ostype(fp[t], k.pos))
           decoder == TYPES_get(tag.val)
       IN  /\ top.count > 0
           /\ IF ~tag.ok
              THEN Fail(t, tag) /\ UNCHANGED TYPES
              ELSE /\ TYPES' = TYPES_after_get(tag.val)
                   /\ IF decoder = "None"
                      THEN Fail(t, Raise("ValueError", tag.pos))
                      ELSE IF Base(decoder) \in {"Descriptor", "List"}
                      THEN LET r == Enter(decoder, key.val, fp[t], tag.pos)
                           IN  IF r.ok
                               THEN /\ stack' = Push(t, r.val)
                                    /\ cur' = [cur EXCEPT ![t] = r.pos]
                                    /\ UNCHANGED done
                               ELSE Fail(t, r)
                      ELSE LET r == ReadElement(decoder, fp[t], tag.pos)
                           IN  IF ~r.ok THEN Fail(t, r)
                               ELSE IF r.val = None /\ Base(top.cls) = "Descriptor"
                               THEN Fail(t, NoneValue(key.val, tag.val, r.pos))
                               ELSE /\ stack' = ReplaceTop(t, Appended(top, key.val, r.val))
                                    /\ cur' = [cur EXCEPT ![t] = r.pos]
                                    /\ UNCHANGED done
    /\ UNCHANGED <<ostype, pc, elem, file, stream, res, out, got, fp>>

\* The innermost read returns its element: to the turn of the loop that
\* called it, or to the caller of the thread.
ThreadReturn(t) ==
    /\ done[t] = NoValue
    /\ stack[t] # <<>>
    /\ LET n == Len(stack[t])
           top == stack[t][n]
       IN  /\ top.count = 0
           /\ IF n = 1
              THEN /\ done' = [done EXCEPT ![t] = Ok(Leave(top), cur[t])]
                   /\ stack' = [stack EXCEPT ![t] = <<>>]
              ELSE /\ stack' = [stack EXCEPT ![t] =
                                  Append(SubSeq(@, 1, n - 2),
                                         Appended(@[n - 1], top.key, Leave(top)))]
                   /\ UNCHANGED done
    /\ UNCHANGED <<TYPES, ostype, pc, elem, file, stream, res, out, got, fp, cur>>

\* The thread writes the tree it decoded to a stream of its own.
ThreadEncode(t) ==
    /\ done[t] # NoValue
    /\ done[t].ok
    /\ out[t] = NoValue
    /\ out' = [out EXCEPT ![t] = tobytes(done[t].val)]
    /\ UNCHANGED <<TYPES, ostype, pc, elem, file, stream, res, got, fp, cur, stack, done>>

NextThreads ==
    \E t \in Threads :
        ThreadCall(t) \/ ThreadTurn(t) \/ ThreadReturn(t) \/ ThreadEncode(t)

SpecThreads == InitThreads /\ [][NextThreads]_vars

\* C9: no step of a decode or an encode changes the registry (TYPES and the
\* tags stored on the classes), and however the threads interleave, each
\* thread ends with what the decode of its stream gives alone, and writes
\* what the encode of that tree gives alone.
C9_NoSharedState ==
    [][/\ TYPES' = TYPES
       /\ ostype' = ostype
       /\ \A t \in Threads :
            /\ done'[t] # NoValue => done'[t] = frombytes("Descriptor", fp'[t])
            /\ out'[t] # NoValue =>
                  out'[t] = tobytes(frombytes("Descriptor", fp'[t]).val)]_vars

\* C9 happens: two threads have finished decodes of different streams, both
\* with a tree, after steps of one ran between steps of the other.
C9_Witness ==
    /\ pc = "threads"
    /\ done[1] # NoValue /\ done[2] # NoValue
    /\ done[1].ok /\ done[2].ok
    /\ fp[1] # fp[2]
    /\ out[1] # NoValue /\ out[2] = NoValue

----------------------------------------------------------------------------
(* The byte count a write returns.                                         *)

\* The element the last write wrote.
WrittenElement == IF pc = "encoded" THEN elem ELSE res.val

RECURSIVE SumOver(_, _)
SumOver(f, n) == IF n = 0 THEN 0 ELSE f[n] + SumOver(f, n - 1)

\* The bytes a container puts on the stream, part by part: name, classID
\* and the 4-byte count, then for each entry its key, its 4-byte tag and
\* its body.
PartsSize(node) ==
    IF Base(node.cls) = "Descriptor"
    THEN Len(write_unicode_string(node.name, TRUE).out)
         + Len(write_length_and_key(node.classID).out) + 4
         + SumOver([i \in 1..Len(node.items) |->
                      Len(write_length_and_key(node.items[i][1]).out) + 4
                      + Len(WriteElement(node.items[i][2]).out)],
                   Len(node.items))
    ELSE 4 + SumOver([i \in 1..Len(node.items) |->
                        4 + Len(WriteElement(node.items[i]).out)],
                     Len(node.items))

\* C11: a write that returns has returned the number of bytes it put on
\* the stream, and at every container of the tree that number is the sum of
\* the sizes of name, classID, the 4-byte count and each entry's key, 4-byte
\* tag and body.
C11_WrittenCount ==
    (pc \in {"encoded", "reencoded"} /\ out.err = "none") =>
        /\ out.written = Len(out.out)
        /\ \A n \in Nodes(WrittenElement) :
              Base(n.cls) \in {"Descriptor", "List"} =>
                  /\ WriteElement(n).written = Len(WriteElement(n).out)
                  /\ WriteElement(n).written = PartsSize(n)

\* C11 happens: a Descriptor that holds a List with items, and keys of
\* both forms, has been written.
C11_Witness ==
    /\ pc = "encoded"
    /\ out.err = "none"
    /\ elem.cls = "Descriptor"
    /\ InDescriptorClassID(elem.classID)
    /\ \E i \in 1..Len(elem.items) :
          /\ ~InDescriptorClassID(elem.items[i][1])
          /\ Base(elem.items[i][2].cls) = "List"
          /\ Len(elem.items[i][2].items) > 0
    /\ out.written = Len(out.out)
    /\ out.written > 4

----------------------------------------------------------------------------
(* Descriptors with a key given more than once: to the constructor, and in *)
(* the entries of a decoded stream.                                        *)

\* Descriptor(name, classID, items), the inner elements built first: attrs
\* passes items through the converter of the attribute.
RECURSIVE Constructed(_)
Constructed(args) ==
    IF Base(args.cls) = "Descriptor"
    THEN [args EXCEPT !.items =
            OrderedDict([i \in 1..Len(args.items) |->
                           <<args.items[i][1], Constructed(args.items[i][2])>>])]
    ELSE IF Base(args.cls) = "List"
    THEN [args EXCEPT !.items =
            [i \in 1..Len(args.items) |-> Constructed(args.items[i])]]
    ELSE args

\* A Descriptor with one key twice, alone and inside other containers.
Repeated(kc, k1, k2) ==
    LET twice == [cls |-> "GlobalObject", name |-> <<>>, classID |-> kc,
                  items |-> << <<k1, Int5>>, <<k2, BoolT>> >>]
    IN  {[cls |-> "Descriptor", name |-> <<>>, classID |-> kc,
          items |-> << <<k1, twice>> >>],
         [cls |-> "Descriptor", name |-> <<>>, classID |-> kc,
          items |-> << <<k1, [cls |-> "List", items |-> <<twice>>]>>,
                       <<k2, twice>> >>]}

\* The arguments constructors are called with.
ConstructArguments ==
    KeyFamily(MemKeys, TRUE)
    \cup Repeated(MemNull, BytesKey(NmCode), BytesKey(NmCode))

\* The documents: a key may come twice in one form, and once in each form.
RepeatDocuments ==
    KeyFamily(FileKeys \cup {StoredText(NmCode)}, TRUE)
    \cup Repeated(FileNull, StoredCode(NmCode), StoredText(NmCode))

InitArguments ==
    /\ pc = "args"
    /\ elem \in ConstructArguments
    /\ file = NoValue
    /\ stream = <<>>

InitRepeats ==
    /\ pc = "file"
    /\ elem = NoValue
    /\ file \in {[doc |-> d, cut |-> Len(FileBytes(d))] : d \in RepeatDocuments}
    /\ stream = FileBytes(file.doc)

InitConstruct == InitRegistry /\ InitIdle /\ (InitArguments \/ InitRepeats)

\* The constructor runs on the arguments held in elem.
Construct ==
    /\ pc = "args"
    /\ elem' = Constructed(elem)
    /\ pc' = "new"
    /\ UNCHANGED <<TYPES, ostype, file, stream, res, out, got, fp, cur, stack, done>>

NextConstruct == Construct \/ Encode \/ Decode \/ Reencode \/ GetItem

SpecConstruct == InitConstruct /\ [][NextConstruct]_vars

\* No Descriptor of the tree holds a key twice.
KeysDistinct(tree) ==
    \A n \in Nodes(tree) : Base(n.cls) = "Descriptor" => DistinctKeys(n.items)

\* The 4-byte count in what Descriptor.write puts on the stream for self.
EmittedCount(self) ==
    LET h == Len(write_unicode_string(self.name, TRUE).out)
             + Len(write_length_and_key(self.classID).out)
    IN  FromU32(SubSeq(WriteElement(self).out, h + 1, h + 4))

\* C12: a Descriptor that Descriptor.read returned or a constructor built
\* holds no key twice, at any depth, whatever keys the entries of the stream
\* or the arguments repeat; and in what a write that returns has written,
\* the count of every Descriptor is the number of keys the loop of write
\* goes through, with exactly their entries after it.
C12_UniqueKeys ==
    /\ pc = "new" => KeysDistinct(elem)
    /\ (pc = "decoded" /\ res.ok) => KeysDistinct(res.val)
    /\ (pc \in {"encoded", "reencoded"} /\ out.err = "none") =>
          \A n \in Nodes(WrittenElement) :
              Base(n.cls) = "Descriptor" =>
                  /\ EmittedCount(n) = Len(iter(n))
                  /\ EmittedCount(n) = Cardinality({n.items[i][1] : i \in 1..Len(n.items)})
                  /\ Len(WriteElement(n).out) = PartsSize(n)

\* C12 happens: a stream of two entries, the same key in the 0-length form
\* and in the long form, was decoded to a Descriptor of one entry and
\* written again with the count 1.
C12_Witness ==
    /\ pc = "reencoded"
    /\ out.err = "none"
    /\ file # NoValue
    /\ Len(file.doc.items) = 2
    /\ file.doc.items[1][1] # file.doc.items[2][1]
    /\ Len(res.val.items) = 1
    /\ res.val.items[1][1] = BytesKey(NmCode)
    /\ EmittedCount(res.val) = 1

====
